---- MODULE Spec2Model ----
(***************************************************************************)
(* Model of tap-algolia's day-windowed extraction engine:                  *)
(*   AlgoliaAnalyticsStream.get_records   (src/tap_algolia/client.py)      *)
(*   TopSearchesStream.get_records        (src/tap_algolia/streams.py)     *)
(* A python `date` is its proleptic Gregorian ordinal (date.toordinal()),  *)
(* a date STRING "YYYY-MM-DD" is the tuple <<Y, M, D>> of its three        *)
(* fields, so that strptime / isoformat are real conversions.  None, a     *)
(* missing dictionary key and the empty string are the empty tuple.        *)
(***************************************************************************)
EXTENDS Integers, Sequences, FiniteSets, TLC

(***************************************************************************)
(* Bounds of the model (not program constants).                            *)
(***************************************************************************)
\* stored bookmarks and context overrides lie at most MaxLag days before today
MaxLag == 2
\* ... and at most MaxAhead days after today
MaxAhead == 1
\* number of records of a page that is shorter than `limit` and not empty
ShortPage == 5

(***************************************************************************)
(* Program constants.                                                      *)
(***************************************************************************)
\* client.py:121  default_date_window: ClassVar[int] = 30
default_date_window == 30
\* client.py:388  max_retries = 5
max_retries == 5
\* client.py:390  retry_delay = 1  # seconds
retry_delay == 1
\* client.py:250  limit = getattr(self, "limit", 1000); streams.py:78 limit = 1000
limit == 1000
\* streams.py:78  limit = 1000 (TopSearchesStream; likewise streams.py:456, 641)
TopSearchesStream_limit == 1000

None == <<>>

(***************************************************************************)
(* datetime: calendar arithmetic of the python standard library, as used   *)
(* by the code through date.today(), timedelta(days=n), strptime and       *)
(* isoformat.                                                              *)
(***************************************************************************)
IsLeap(y) == (y % 4 = 0 /\ y % 100 # 0) \/ y % 400 = 0

DaysInMonth(y, m) ==
    IF m = 2 THEN (IF IsLeap(y) THEN 29 ELSE 28)
    ELSE IF m \in {4, 6, 9, 11} THEN 30 ELSE 31

DaysInYear(y) == IF IsLeap(y) THEN 366 ELSE 365

\* number of days before January 1st of year y (datetime._days_before_year)
DaysBeforeYear(y) ==
    (y - 1) * 365 + ((y - 1) \div 4) - ((y - 1) \div 100) + ((y - 1) \div 400)

RECURSIVE DaysBeforeMonth(_, _)
DaysBeforeMonth(y, m) ==
    IF m <= 1 THEN 0 ELSE DaysBeforeMonth(y, m - 1) + DaysInMonth(y, m - 1)

\* date(y, m, d).toordinal()
toordinal(y, m, d) == DaysBeforeYear(y) + DaysBeforeMonth(y, m) + d

RECURSIVE YearOfOrdinal(_, _)
YearOfOrdinal(n, y) ==
    IF n > DaysBeforeYear(y + 1) THEN YearOfOrdinal(n, y + 1)
    ELSE IF n <= DaysBeforeYear(y) THEN YearOfOrdinal(n, y - 1)
    ELSE y

RECURSIVE MonthOfOrdinal(_, _, _)
MonthOfOrdinal(n, y, m) ==
    IF n > DaysBeforeYear(y) + DaysBeforeMonth(y, m + 1)
    THEN MonthOfOrdinal(n, y, m + 1) ELSE m

\* date.isoformat(): the string "YYYY-MM-DD" of the date with ordinal n
isoformat(n) ==
    LET y == YearOfOrdinal(n, (n \div 366) + 1)
        m == MonthOfOrdinal(n, y, 1)
    IN  <<y, m, n - DaysBeforeYear(y) - DaysBeforeMonth(y, m)>>

\* does datetime.strptime(s, "%Y-%m-%d") succeed (no ValueError/TypeError)?
strptime_ok(s) ==
    /\ Len(s) = 3
    /\ s[1] \in 1..9999
    /\ s[2] \in 1..12
    /\ s[3] \in 1..DaysInMonth(s[1], s[2])

\* datetime.strptime(s, "%Y-%m-%d").date(), for a string that parses
strptime(s) == toordinal(s[1], s[2], s[3])

(***************************************************************************)
(* State.                                                                  *)
(***************************************************************************)
VARIABLES
    stream,        \* "count": a stream using AlgoliaAnalyticsStream.get_records
                   \* "searches": a stream overriding it (TopSearchesStream, ...)
    state_value,   \* what get_starting_replication_key_value returns this run
    nested_value,  \* bookmarks[name].replication_key_value of get_context_state
    lookup_raises, \* the state lookup of streams.py:168-204 raises an exception
    context,       \* the caller's context: [start_date, end_date, date, state,
                   \* start_timestamp, index], None for a key it does not have
    indices,       \* config["indices"], a sequence of index names
    pc,            \* position of the run
    window,        \* the window resolved by the stream's own get_records
    o_start, o_end, o_i,            \* locals of TopSearchesStream.get_records
    ctx,           \* the context AlgoliaAnalyticsStream.get_records was called with
    start_date, end_date, i, current_date, day_context, retry_count,
                   \* locals of AlgoliaAnalyticsStream.get_records
    requests,      \* params of the requests issued for the current day, in order
    sleeps,        \* arguments of time.sleep for the current day, in order
    emitted,       \* batches of records yielded for the current day, in order
    response,      \* the last response received in the current attempt
    raised,        \* what the transport raised in the current attempt, "" if nothing
    body,          \* the body of the last response, where its entries are itemised
    out,           \* the records get_records yielded for that body, one by one
    days,          \* day contexts built by the stream's own get_records, in order
    resets_before, \* a day before the current one had a connection reset
    run,           \* the number of this run of the stream, from 1
    last_run,      \* how the run before this one ended
    run_max,       \* the greatest `date` emitted in this run, None when none
    bookmark,      \* the persisted replication-key value of (stream, index)
    error          \* the exception that left get_records, "" when none

vars == <<stream, state_value, nested_value, lookup_raises, context, indices,
          pc, window, o_start, o_end, o_i, ctx,
          start_date, end_date, i, current_date, day_context, retry_count,
          requests, sleeps, emitted, response, raised, body, out, days,
          resets_before, run, last_run, run_max, bookmark, error>>

\* date.today(): the runs of one behaviour happen on 2024-03-01
today == toordinal(2024, 3, 1)

ValidDates == { isoformat(today + k) : k \in (0 - MaxLag)..MaxAhead }
\* a string strptime rejects: "2023-02-29", a day that does not exist
BadDates == { <<2023, 2, 29>> }

NoResponse == [count |-> -1, offset |-> 0]
NoDayContext == [start_date |-> None, end_date |-> None, date |-> None]

\* index names, character by character: "prod" and "my index"
Prod == <<"p", "r", "o", "d">>
MyIndex == <<"m", "y", " ", "i", "n", "d", "e", "x">>

\* a body whose entries are not itemised
NoBody == [itemised |-> FALSE, has_array |-> FALSE, entries |-> <<>>]

\* the value of a `rate` that an entry does not have
NoRate == [coef |-> 0, exp |-> 1]

(***************************************************************************)
(* Window resolution.                                                      *)
(***************************************************************************)
\* resume_start with the bookmark ignored
resume_start_ignored(value, default) == default

\* resume_start with today in the place of a bookmark that does not parse
resume_start_bad_today(value, default) ==
    IF value # None
    THEN IF strptime_ok(value) THEN strptime(value) + 1
         ELSE today
    ELSE default

\* resume_start with the bookmark's own day fetched again
resume_start_same_day(value, default) ==
    IF value # None /\ strptime_ok(value) THEN strptime(value) ELSE default

\* client.py:335-343, streams.py:196-203: the day after a bookmark that parses
resume_start(value, default) ==
    IF value # None /\ strptime_ok(value) THEN strptime(value) + 1 ELSE default

\* override with today in the place of a context date that does not parse
override_bad_as_today(value, d) ==
    IF value # None
    THEN IF strptime_ok(value) THEN strptime(value) ELSE today
    ELSE d

\* override with the context date used only when nothing else set the date
override_ignored(value, d) == d

\* client.py:346-356, streams.py:209-219: a context date that parses replaces d
override(value, d) ==
    IF value # None /\ strptime_ok(value) THEN strptime(value) ELSE d

\* replication_key_value that asks the stream state before the context
replication_key_value_state_first(c, value, nested) ==
    IF value # None THEN value
    ELSE IF c.start_timestamp # None THEN c.start_timestamp
    ELSE nested

\* streams.py:175-194: the three places the resume value is looked for
replication_key_value(c, value, nested) ==
    IF c.start_timestamp # None THEN c.start_timestamp
    ELSE IF value # None THEN value
    ELSE nested

\* default_start counting today as one of the window's days
default_start_off_by_one == today - (default_date_window - 1)

\* client.py:329, streams.py:164: start_date = end_date - timedelta(days=window)
default_start == today - default_date_window

\* base_window in which a bookmark that parses wins over the context's
\* start_date
base_window_bookmark_first(c, value) ==
    [start |-> resume_start(value, override(c.start_date, default_start)),
     end   |-> override(c.end_date, today)]

\* client.py:325-356: start_date and end_date of AlgoliaAnalyticsStream.get_records
base_window(c, value) ==
    [start |-> override(c.start_date, resume_start(value, default_start)),
     end   |-> override(c.end_date, today)]

\* streams.py:163-219: start_date and end_date of TopSearchesStream.get_records;
\* an exception of the state lookup is caught (streams.py:205-206) and leaves
\* the default start
searches_window(c, value, nested, raises) ==
    [start |-> override(c.start_date,
                        IF raises THEN default_start
                        ELSE resume_start(replication_key_value(c, value, nested),
                                          default_start)),
     end   |-> override(c.end_date, today)]

\* day_range_len with the end day left out: range(delta.days)
day_range_len_exclusive(start, end) == end - start

\* client.py:364-368, streams.py:227-234: range(delta.days + 1)
day_range_len(start, end) == (end - start) + 1

\* make_day_context that copies every key the caller's context has
make_day_context_copy_all(c, d) ==
    [start_date |-> IF c.start_date # None THEN c.start_date ELSE isoformat(d),
     end_date |-> IF c.end_date # None THEN c.end_date ELSE isoformat(d),
     date |-> IF c.date # None THEN c.date ELSE isoformat(d),
     state |-> c.state,
     start_timestamp |-> c.start_timestamp, index |-> c.index]

\* client.py:372-382, streams.py:238-248: the context of one day: the day's
\* dates, no state, and the other keys of the context it is made from
make_day_context(c, d) ==
    [start_date |-> isoformat(d), end_date |-> isoformat(d), date |-> isoformat(d),
     state |-> None,
     start_timestamp |-> c.start_timestamp, index |-> c.index]

(***************************************************************************)
(* One request and its response.                                           *)
(***************************************************************************)
\* client.py:250, streams.py:139: the limit attribute of the stream's class,
\* 1000 for a class without one
getattr_limit == IF stream = "searches" THEN TopSearchesStream_limit ELSE limit

\* resolve_index that looks in the configuration first
resolve_index_config_first(c) ==
    IF indices # <<>> THEN indices[1]
    ELSE c.index

\* client.py:213-226: the index of the context, else the first index of the
\* config, else None, for which get_url_params raises ValueError
resolve_index(c) ==
    IF c.index # None THEN c.index
    ELSE IF indices # <<>> THEN indices[1]
    ELSE None

\* get_url_params that always asks for the default range
get_url_params_default_range(c, next_page_token) ==
    [index     |-> resolve_index(c),
     startDate |-> isoformat(today - default_date_window),
     endDate   |-> isoformat(today),
     limit     |-> getattr_limit,
     offset    |-> IF next_page_token # 0 THEN next_page_token ELSE 0]

\* get_url_params that goes on from the offset of the day's last request
get_url_params_resume_offset(c, next_page_token) ==
    [index     |-> resolve_index(c),
     startDate |-> IF c.start_date # None THEN c.start_date
                   ELSE isoformat(today - default_date_window),
     endDate   |-> IF c.start_date # None THEN c.end_date ELSE isoformat(today),
     limit     |-> getattr_limit,
     offset    |-> IF requests # <<>>
                   THEN requests[Len(requests)].offset + getattr_limit ELSE 0]

\* get_url_params asking for the days from the context's start_date to today
get_url_params_to_today(c, next_page_token) ==
    [index     |-> resolve_index(c),
     startDate |-> IF c.start_date # None THEN c.start_date
                   ELSE isoformat(today - default_date_window),
     endDate   |-> isoformat(today),
     limit     |-> getattr_limit,
     offset    |-> IF next_page_token # 0 THEN next_page_token ELSE 0]

\* client.py:228-257 (streams.py:138-143 sets the same limit and offset)
get_url_params(c, next_page_token) ==
    [index     |-> resolve_index(c),
     startDate |-> IF c.start_date # None THEN c.start_date
                   ELSE isoformat(today - default_date_window),
     endDate   |-> IF c.start_date # None THEN c.end_date ELSE isoformat(today),
     limit     |-> getattr_limit,
     offset    |-> IF next_page_token # 0 THEN next_page_token ELSE 0]

\* next_page_token of an offset paginator: a full page is followed by the
\* page at the next offset
next_page_token_full(count, offset) ==
    IF count >= limit THEN offset + count ELSE 0

\* next_page_token of a paginator that asks for one more page after a full
\* first page
next_page_token_once(count, offset) ==
    IF count >= limit /\ offset = 0 THEN limit ELSE 0

\* next_page_token of a paginator that always asks for the next offset
next_page_token_offset(count, offset) == offset + limit

\* client.py:123-124: next_page_token_jsonpath = None and the class defines no
\* paginator, so no token is ever read from a response: 0 stands for "no token"
next_page_token(count, offset) == 0

\* client.py:289-311: the records of a page, each with the request's dates
parse_response(resp, params) ==
    [count |-> resp.count, date |-> resp.raw_date, offset |-> params.offset,
     start_date |-> params.startDate, end_date |-> params.endDate]

\* a JSON null, the one value of a response that is no string
Null == << -1 >>

\* the string "None"; letters sort after digits
NoneString == << 10000 >>

\* a string "YYYY-MM-DDT00:00:00Z" of day n
datetime_string(n) == isoformat(n) \o << 0 >>

is_str(v) == v # Null

\* client.py:401: str(record["date"]) of a value without isoformat; a JSON
\* response holds no date or datetime objects
str(v) == IF v = Null THEN NoneString ELSE v

\* the "YYYY-MM-DD" strings
is_iso_date(v) == Len(v) = 3 /\ strptime_ok(v)

\* client.py:397-401: a record without a date gets the day's, a date that is
\* no string is converted to one, and a date that is a string is left alone
base_date(rec, d) ==
    [rec EXCEPT !.date = IF rec.date = None THEN isoformat(d)
                         ELSE IF ~ is_str(rec.date) THEN str(rec.date)
                         ELSE rec.date]

\* searches_date that leaves the record as the base get_records yielded it
searches_date_kept(rec, d) == rec

\* streams.py:258-263: the overriding get_records sets the date of its own day
searches_date(rec, d) == [rec EXCEPT !.date = isoformat(d)]

(***************************************************************************)
(* The records of a response, one by one.                                  *)
(***************************************************************************)
\* urlencode as requests applies it to a query value: a space becomes "+",
\* letters and digits stay
quote_plus(v) == [k \in 1..Len(v) |-> IF v[k] = " " THEN "+" ELSE v[k]]

\* client.py:278-286: the query of response.request.url, split at "&" and "=":
\* the values as the transport encoded them
url_params(params) ==
    [index |-> quote_plus(params.index),
     startDate |-> params.startDate, endDate |-> params.endDate]

Digits == <<"0", "1", "2", "3", "4", "5", "6", "7", "8", "9">>

digit(c) == (CHOOSE k \in 1..10 : Digits[k] = c) - 1

RECURSIVE int_of(_)
int_of(cs) ==
    IF cs = <<>> THEN 0
    ELSE 10 * int_of(SubSeq(cs, 1, Len(cs) - 1)) + digit(cs[Len(cs)])

RECURSIVE digits_of(_)
digits_of(n) ==
    IF n < 10 THEN << Digits[n + 1] >>
    ELSE Append(digits_of(n \div 10), Digits[(n % 10) + 1])

\* decimal.Decimal of a literal with a decimal point: its digits and the
\* number of digits after the point, nothing rounded
Decimal(lit) ==
    LET p == CHOOSE k \in 1..Len(lit) : lit[k] = "." IN
        [coef |-> int_of(SubSeq(lit, 1, p - 1) \o SubSeq(lit, p + 1, Len(lit))),
         exp  |-> p - Len(lit)]

\* str() of a Decimal with a negative exponent
decimal_str(v) ==
    LET ds == digits_of(v.coef)
        f  == 0 - v.exp
        padded == [j \in 1..(IF f + 1 > Len(ds) THEN f + 1 - Len(ds) ELSE 0) |-> "0"]
                  \o ds
        n  == Len(padded)
    IN SubSeq(padded, 1, n - f) \o << "." >> \o SubSeq(padded, n - f + 1, n)

\* parse_float as a binary float of 7 fraction bits, written out in full
parse_float_binary(lit) ==
    LET v == Decimal(lit)
        den == 10 ^ (0 - v.exp)
        m == (v.coef * 256 + den) \div (2 * den)
    IN [coef |-> m * 78125, exp |-> -7]

\* client.py:276: response.json(parse_float=decimal.Decimal)
parse_float(lit) == Decimal(lit)

\* extract_jsonpath that takes the whole body for a record array it lacks
extract_jsonpath_whole_body(data) ==
    IF data.has_array THEN data.entries
    ELSE << [dict |-> TRUE, search |-> None, count |-> 0, index_name |-> None,
             date |-> None, start_date |-> None, rate |-> None] >>

\* client.py:299: extract_jsonpath(self.records_jsonpath, data): the entries
\* of the record array, none when the body has no such array
extract_jsonpath(data) == IF data.has_array THEN data.entries ELSE <<>>

\* enriched_record that leaves the dates an entry has of its own
enriched_record_setdefault(e, url) ==
    [search     |-> e.search,
     count      |-> e.count,
     index_name |-> IF e.index_name = None THEN url.index ELSE e.index_name,
     start_date |-> IF e.start_date = None THEN url.startDate ELSE e.start_date,
     end_date   |-> url.endDate,
     date       |-> e.date,
     rate       |-> IF e.rate = None THEN NoRate ELSE parse_float(e.rate)]

\* client.py:301-311: the copy of a dict entry with index_name, unless it has
\* one, and the dates of the request
enriched_record(e, url) ==
    [search     |-> e.search,
     count      |-> e.count,
     index_name |-> IF e.index_name = None THEN url.index ELSE e.index_name,
     start_date |-> url.startDate,
     end_date   |-> url.endDate,
     date       |-> e.date,
     rate       |-> IF e.rate = None THEN NoRate ELSE parse_float(e.rate)]

\* isinstance(record, dict) taken to hold of every entry
isinstance_dict_always(e) == TRUE

\* client.py:300: isinstance(record, dict)
isinstance_dict(e) == e.dict

\* client.py:299-311: the records parse_response yields for a body
RECURSIVE parse_response_records(_, _)
parse_response_records(entries, url) ==
    IF entries = <<>> THEN <<>>
    ELSE LET rest == parse_response_records(Tail(entries), url) IN
             IF isinstance_dict(Head(entries))
             THEN << enriched_record(Head(entries), url) >> \o rest
             ELSE rest

\* may_retry with one retry too many: retry_count <= max_retries
may_retry_inclusive(n) == n <= max_retries

\* client.py:414: if retry_count < max_retries, the failure is retried
may_retry(n) == n < max_retries

\* sleep_time growing linearly: retry_delay * retry_count
sleep_time_linear(n) == retry_delay * n

\* client.py:416: sleep_time = retry_delay * (2 ** (retry_count - 1))
sleep_time(n) == retry_delay * (2 ^ (n - 1))

\* strings compare field by field, left to right, a proper prefix of a string
\* being less than the string, and None being less than every string
str_less(a, b) ==
    \E k \in 1..Len(b) :
        /\ \A j \in 1..(k - 1) : j <= Len(a) /\ a[j] = b[j]
        /\ k > Len(a) \/ a[k] < b[k]

\* advance_bookmark keeping the value of the last record emitted
advance_bookmark_last(m, rec) == IF rec.count > 0 THEN rec.date ELSE m

\* the greatest replication-key value among the records emitted in this run
advance_bookmark(m, rec) ==
    IF rec.count > 0 /\ str_less(m, rec.date) THEN rec.date ELSE m

(***************************************************************************)
(* The run.                                                                *)
(***************************************************************************)
Contexts ==
    [start_date : {None} \cup BadDates \cup ValidDates,
     end_date : {None} \cup BadDates \cup ValidDates,
     date : {None}, state : {None},
     start_timestamp : {None}, index : {None}]

\* a run that no parseable bookmark and no parseable start_date shortens
cold_start(c, value, nested, raises) ==
    /\ ~ strptime_ok(c.start_date)
    /\ raises \/ ~ strptime_ok(replication_key_value(c, value, nested))

\* the state of a run before get_records is called
Fresh ==
    /\ pc = "start"
    /\ window = [set |-> FALSE, start |-> 0, end |-> 0]
    /\ o_start = 0 /\ o_end = 0 /\ o_i = 0
    /\ ctx = context
    /\ start_date = 0 /\ end_date = 0 /\ i = 0 /\ current_date = 0
    /\ day_context = NoDayContext
    /\ retry_count = 0
    /\ requests = <<>> /\ sleeps = <<>> /\ emitted = <<>>
    /\ response = NoResponse
    /\ raised = ""
    /\ body = NoBody /\ out = <<>>
    /\ days = <<>>
    /\ run_max = None
    /\ bookmark = state_value
    /\ error = ""
    /\ resets_before = FALSE

\* no run came before this one
NoLastRun == [ended |-> "", day |-> 0, partial |-> FALSE, days |-> 0]

\* the first run of a stream
FirstRun == run = 1 /\ last_run = NoLastRun

\* the inputs of a run; the runs over the whole default window have at most
\* one malformed input and no end_date in their context, or no input but
\* yesterday as end_date; the state lookup raises only in runs of the
\* overriding get_records that have a bookmark of yesterday and well-formed
\* context dates
Init ==
    /\ stream \in {"count", "searches"}
    /\ state_value \in {None} \cup BadDates \cup ValidDates
    /\ nested_value = None
    /\ lookup_raises \in BOOLEAN
    /\ context \in Contexts
    /\ indices = << Prod >>
    /\ lookup_raises =>
          /\ stream = "searches"
          /\ state_value = isoformat(today - 1)
          /\ context.start_date \notin BadDates
          /\ context.end_date = None
    /\ cold_start(context, state_value, nested_value, FALSE) =>
          \/ /\ context.end_date = None
             /\ state_value = None \/ context.start_date = None
          \/ /\ state_value = None /\ context.start_date = None
             /\ context.end_date = isoformat(today - 1)
    /\ Fresh
    /\ FirstRun

base_frame == <<start_date, end_date, i, current_date, day_context, retry_count>>
outer_frame == <<o_start, o_end, o_i>>
inputs == <<stream, state_value, nested_value, lookup_raises, context, indices,
            run, last_run>>
day_logs == <<requests, sleeps, emitted, response, raised, body, out>>
store == <<run_max, bookmark>>

\* discover_streams that takes any configuration
config_valid_always == TRUE

\* tap.py:104: the configuration names at least one index
config_valid == indices # <<>>

\* tap.py:97-106: discover_streams raises ValueError for a configuration
\* without indices; no stream is made and no get_records is called
discover_streams ==
    /\ pc = "start" /\ ~ config_valid
    /\ pc' = "failed" /\ error' = "ValueError"
    /\ UNCHANGED <<inputs, resets_before, window, outer_frame, ctx, base_frame, day_logs, days,
                   store>>

\* streams.py:150-224: TopSearchesStream.get_records up to its day loop
SearchesGetRecords ==
    /\ pc = "start" /\ stream = "searches" /\ config_valid
    /\ LET w == searches_window(context, state_value, nested_value, lookup_raises) IN
         /\ window' = [set |-> TRUE, start |-> w.start, end |-> w.end]
         /\ o_start' = w.start /\ o_end' = w.end /\ o_i' = 0
         /\ pc' = IF w.start > w.end THEN "done" ELSE "outer_loop"
    /\ UNCHANGED <<inputs, resets_before, ctx, base_frame, day_logs, days, store, error>>

\* streams.py:234-258: one iteration of the day loop, up to super().get_records
SearchesNextDay ==
    /\ pc = "outer_loop"
    /\ IF o_i < day_range_len(o_start, o_end)
       THEN /\ ctx' = make_day_context(context, o_start + o_i)
            /\ days' = Append(days, ctx')
            /\ requests' = <<>> /\ sleeps' = <<>> /\ emitted' = <<>>
            /\ response' = NoResponse /\ raised' = ""
            /\ body' = NoBody /\ out' = <<>>
            /\ pc' = "base_start"
       ELSE /\ pc' = "done"
            /\ UNCHANGED <<ctx, days, day_logs>>
    /\ UNCHANGED <<inputs, resets_before, window, outer_frame, base_frame, store, error>>

\* the caller of AlgoliaAnalyticsStream.get_records gets control back
base_returns ==
    IF stream = "searches"
    THEN pc' = "outer_loop" /\ o_i' = o_i + 1
    ELSE pc' = "done" /\ o_i' = o_i

\* BaseGetRecords with a reversed window put in order instead of skipped
BaseGetRecords_swapped ==
    /\ \/ pc = "start" /\ stream = "count" /\ config_valid
       \/ pc = "base_start"
    /\ LET w == base_window(ctx, state_value) IN
         /\ start_date' = IF w.start > w.end THEN w.end ELSE w.start
         /\ end_date' = IF w.start > w.end THEN w.start ELSE w.end
         /\ i' = 0
         /\ window' = IF stream = "count"
                      THEN [set |-> TRUE, start |-> w.start, end |-> w.end]
                      ELSE window
         /\ pc' = "base_loop" /\ o_i' = o_i
    /\ UNCHANGED <<inputs, resets_before, o_start, o_end, ctx, current_date, day_context,
                   retry_count, day_logs, days, store, error>>

\* client.py:313-365: AlgoliaAnalyticsStream.get_records up to its day loop
BaseGetRecords ==
    /\ \/ pc = "start" /\ stream = "count" /\ config_valid
       \/ pc = "base_start"
    /\ LET w == base_window(ctx, state_value) IN
         /\ start_date' = w.start /\ end_date' = w.end /\ i' = 0
         /\ window' = IF stream = "count"
                      THEN [set |-> TRUE, start |-> w.start, end |-> w.end]
                      ELSE window
         /\ IF w.start > w.end
            THEN base_returns
            ELSE pc' = "base_loop" /\ o_i' = o_i
    /\ UNCHANGED <<inputs, resets_before, o_start, o_end, ctx, current_date, day_context,
                   retry_count, day_logs, days, store, error>>

\* client.py:368-390: one iteration of the day loop, up to the retry loop
\* BaseNextDay that carries the retry counter of the day before into the day
BaseNextDay_keep_retries ==
    /\ pc = "base_loop"
    /\ IF i < day_range_len(start_date, end_date)
       THEN /\ current_date' = start_date + i
            /\ day_context' = make_day_context(ctx, start_date + i)
            /\ retry_count' = retry_count
            /\ resets_before' = (resets_before \/ retry_count > 0)
            /\ days' = IF stream = "count" THEN Append(days, day_context') ELSE days
            /\ requests' = <<>> /\ sleeps' = <<>> /\ emitted' = <<>>
            /\ response' = NoResponse /\ raised' = ""
            /\ body' = NoBody /\ out' = <<>>
            /\ pc' = "attempt" /\ o_i' = o_i
       ELSE /\ base_returns
            /\ UNCHANGED <<current_date, day_context, retry_count, days, day_logs,
                           resets_before>>
    /\ UNCHANGED <<inputs, window, o_start, o_end, ctx, start_date, end_date, i,
                   store, error>>

BaseNextDay ==
    /\ pc = "base_loop"
    /\ IF i < day_range_len(start_date, end_date)
       THEN /\ current_date' = start_date + i
            /\ day_context' = make_day_context(ctx, start_date + i)
            /\ retry_count' = 0
            /\ resets_before' = (resets_before \/ retry_count > 0)
            /\ days' = IF stream = "count" THEN Append(days, day_context') ELSE days
            /\ requests' = <<>> /\ sleeps' = <<>> /\ emitted' = <<>>
            /\ response' = NoResponse /\ raised' = ""
            /\ body' = NoBody /\ out' = <<>>
            /\ pc' = "attempt" /\ o_i' = o_i
       ELSE /\ base_returns
            /\ UNCHANGED <<current_date, day_context, retry_count, days, day_logs,
                           resets_before>>
    /\ UNCHANGED <<inputs, window, o_start, o_end, ctx, start_date, end_date, i,
                   store, error>>

\* Attempt that also sends the request of the next day ahead of time
Attempt_prefetch ==
    /\ pc = "attempt"
    /\ IF retry_count < max_retries
       THEN /\ requests' = requests \o
                  << get_url_params(make_day_context(ctx, current_date + 1), 0),
                     get_url_params(day_context, 0) >>
            /\ response' = NoResponse /\ raised' = ""
            /\ pc' = "wait" /\ i' = i
       ELSE /\ pc' = "base_loop" /\ i' = i + 1
            /\ UNCHANGED <<requests, response, raised>>
    /\ UNCHANGED <<inputs, resets_before, window, outer_frame, ctx, start_date, end_date,
                   current_date, day_context, retry_count, sleeps, emitted,
                   body, out, days, store, error>>

\* client.py:392-396, 430-432: the head of the retry loop: an attempt starts
\* with the request for the first page of the day, unless get_url_params
\* raises ValueError for want of an index, which leaves get_records; once the
\* loop condition fails the day loop goes on
Attempt ==
    /\ pc = "attempt"
    /\ IF retry_count < max_retries
       THEN IF resolve_index(day_context) = None
            THEN /\ pc' = "failed" /\ error' = "ValueError" /\ i' = i
                 /\ UNCHANGED <<requests, response, raised>>
            ELSE /\ requests' = Append(requests, get_url_params(day_context, 0))
                 /\ response' = NoResponse /\ raised' = ""
                 /\ pc' = "wait" /\ i' = i /\ error' = error
       ELSE /\ pc' = "base_loop" /\ i' = i + 1 /\ error' = error
            /\ UNCHANGED <<requests, response, raised>>
    /\ UNCHANGED <<inputs, resets_before, window, outer_frame, ctx, start_date, end_date,
                   current_date, day_context, retry_count, sleeps, emitted,
                   body, out, days, store>>

\* the date the stream's get_records leaves in a record of the current day
emitted_record(resp, params) ==
    LET r == base_date(parse_response(resp, params), current_date) IN
        IF stream = "searches" THEN searches_date(r, o_start + o_i) ELSE r

\* client.py:396-401, streams.py:258-263: the date get_records leaves in a
\* record that parse_response yielded for the current day
yielded_record(r) ==
    IF stream = "searches"
    THEN searches_date(base_date(r, current_date), o_start + o_i)
    ELSE base_date(r, current_date)

\* the records get_records yields for a body, in the order of its entries
yielded_records(data, params) ==
    LET recs == parse_response_records(extract_jsonpath(data), url_params(params))
    IN [k \in 1..Len(recs) |-> yielded_record(recs[k])]

\* ReceivePage that leaves the retry loop without ending it: the day loop of
\* the base get_records finds the same day again
ReceivePage_same_day(resp) ==
    /\ pc = "wait"
    /\ LET params == requests[Len(requests)]
           rec    == emitted_record(resp, params)
       IN /\ response' = [count |-> resp.count, offset |-> params.offset]
          /\ body' = resp.body
          /\ out' = yielded_records(resp.body, params)
          /\ emitted' = IF resp.count > 0 THEN Append(emitted, rec) ELSE emitted
          /\ run_max' = advance_bookmark(run_max, rec)
          /\ bookmark' = IF run_max' = None THEN bookmark ELSE run_max'
          /\ requests' = requests
          /\ pc' = "base_loop"
          /\ i' = IF stream = "searches" THEN i ELSE i + 1
    /\ UNCHANGED <<inputs, resets_before, window, outer_frame, ctx, start_date, end_date,
                   current_date, day_context, retry_count, sleeps, raised, days,
                   error>>

\* client.py:396-410: a page arrives, its records are yielded, and the
\* paginator either asks for the next page or ends the day
ReceivePage(resp) ==
    /\ pc = "wait"
    /\ LET params == requests[Len(requests)]
           rec    == emitted_record(resp, params)
           token  == next_page_token(resp.count, params.offset)
       IN /\ response' = [count |-> resp.count, offset |-> params.offset]
          /\ body' = resp.body
          /\ out' = yielded_records(resp.body, params)
          /\ emitted' = IF resp.count > 0 THEN Append(emitted, rec) ELSE emitted
          /\ run_max' = advance_bookmark(run_max, rec)
          /\ bookmark' = IF run_max' = None THEN bookmark ELSE run_max'
          /\ IF token # 0
             THEN /\ requests' = Append(requests, get_url_params(day_context, token))
                  /\ pc' = "wait" /\ i' = i
             ELSE /\ requests' = requests
                  /\ pc' = "base_loop" /\ i' = i + 1
    /\ UNCHANGED <<inputs, resets_before, window, outer_frame, ctx, start_date, end_date,
                   current_date, day_context, retry_count, sleeps, raised, days,
                   error>>

\* ConnectionReset with the last failure logged and not raised again
ConnectionReset_skip ==
    /\ pc = "wait"
    /\ retry_count' = retry_count + 1
    /\ raised' = "ConnectionResetError"
    /\ IF may_retry(retry_count')
       THEN /\ sleeps' = Append(sleeps, sleep_time(retry_count'))
            /\ pc' = "attempt"
       ELSE /\ sleeps' = sleeps
            /\ pc' = "attempt"
    /\ UNCHANGED <<inputs, resets_before, window, outer_frame, ctx, start_date, end_date, i,
                   current_date, day_context, requests, emitted, response, body, out, days,
                   store, error>>

\* client.py:412-429: the transport raises ConnectionResetError
ConnectionReset ==
    /\ pc = "wait"
    /\ retry_count' = retry_count + 1
    /\ raised' = "ConnectionResetError"
    /\ IF may_retry(retry_count')
       THEN /\ sleeps' = Append(sleeps, sleep_time(retry_count'))
            /\ pc' = "attempt" /\ error' = error
       ELSE /\ sleeps' = sleeps
            /\ pc' = "failed" /\ error' = "ConnectionResetError"
    /\ UNCHANGED <<inputs, resets_before, window, outer_frame, ctx, start_date, end_date, i,
                   current_date, day_context, requests, emitted, response, body, out, days,
                   store>>

\* any exception handled like a connection reset
OtherException_retried ==
    /\ pc = "wait"
    /\ retry_count' = retry_count + 1
    /\ raised' = "Exception"
    /\ IF may_retry(retry_count')
       THEN /\ sleeps' = Append(sleeps, sleep_time(retry_count'))
            /\ pc' = "attempt" /\ error' = error
       ELSE /\ sleeps' = sleeps
            /\ pc' = "failed" /\ error' = "Exception"
    /\ UNCHANGED <<inputs, resets_before, window, outer_frame, ctx, start_date, end_date, i,
                   current_date, day_context, requests, emitted, response, body, out, days,
                   store>>

\* client.py:430-432: the transport raises anything else
OtherException ==
    /\ pc = "wait"
    /\ raised' = "Exception"
    /\ pc' = "failed" /\ error' = "Exception"
    /\ UNCHANGED <<inputs, resets_before, window, outer_frame, ctx, base_frame, requests,
                   sleeps, emitted, response, body, out, days, store>>

\* the responses the transport can give to a request for day d
Responses(d) ==
    { [count |-> 0, raw_date |-> None, body |-> NoBody] } \cup
    [count : {ShortPage, limit}, raw_date : {None, isoformat(d)}, body : {NoBody}]

Next ==
    \/ SearchesGetRecords
    \/ SearchesNextDay
    \/ BaseGetRecords
    \/ BaseNextDay
    \/ Attempt
    \/ \E resp \in Responses(current_date) : ReceivePage(resp)
    \/ ConnectionReset
    \/ OtherException

Spec == Init /\ [][Next]_vars

(***************************************************************************)
(* Runs over short windows whose responses carry dates of their own.       *)
(***************************************************************************)
\* the `date` of a raw entry: missing, the day's, that of two days before, a
\* date-time string of the day, or null
RawDates(d) ==
    {None, isoformat(d), isoformat(d - 2), datetime_string(d), Null}

RawResponses(d) ==
    { [count |-> 0, raw_date |-> None, body |-> NoBody] } \cup
    [count : {ShortPage, limit}, raw_date : RawDates(d), body : {NoBody}]

\* runs with a bookmark or a start_date that parses
InitRaw ==
    /\ Init
    /\ ~ lookup_raises
    /\ state_value \notin BadDates
    /\ context.end_date \notin BadDates
    /\ ~ cold_start(context, state_value, nested_value, FALSE)

NextRaw ==
    \/ SearchesGetRecords
    \/ SearchesNextDay
    \/ BaseGetRecords
    \/ BaseNextDay
    \/ Attempt
    \/ \E resp \in RawResponses(current_date) : ReceivePage(resp)
    \/ ConnectionReset
    \/ OtherException

SpecRaw == InitRaw /\ [][NextRaw]_vars

(***************************************************************************)
(* Runs over two days in which the entries of every body are itemised.     *)
(***************************************************************************)
MaxEntries == 2

Shoes == <<"s", "h", "o", "e", "s">>
Hats == <<"h", "a", "t", "s">>
\* the literal 0.1 of a JSON body
PointOne == <<"0", ".", "1">>
FirstDay == <<2024, 5, 5>>
OldDay == <<2020, 1, 1>>

\* an entry of the record array that is not a JSON object
NotDict ==
    [dict |-> FALSE, search |-> None, count |-> 0, index_name |-> None,
     date |-> None, start_date |-> None, rate |-> None]

\* {"search": "shoes", "count": 10}
ShoesEntry == [NotDict EXCEPT !.dict = TRUE, !.search = Shoes, !.count = 10]

\* the entries of a record array: a non-object, objects with the fields
\* search and count only, one with an index_name of its own, one with dates
\* of its own, one with a rate
Entries ==
    { NotDict,
      ShoesEntry,
      [ShoesEntry EXCEPT !.search = Hats, !.count = 3],
      [ShoesEntry EXCEPT !.index_name = Hats],
      [ShoesEntry EXCEPT !.date = OldDay, !.start_date = OldDay],
      [ShoesEntry EXCEPT !.rate = PointOne] }

\* the bodies of a response: without the record array, or with a record
\* array of up to MaxEntries entries
Bodies ==
    { [itemised |-> TRUE, has_array |-> FALSE, entries |-> <<>>] } \cup
    { [itemised |-> TRUE, has_array |-> TRUE, entries |-> es] :
        es \in UNION { [1..n -> Entries] : n \in 0..MaxEntries } }

\* the page a body is: the number of its objects and the date of the first
NormResponses ==
    { LET ds == SelectSeq(extract_jsonpath(b), isinstance_dict) IN
          [count |-> Len(ds),
           raw_date |-> IF ds = <<>> THEN None ELSE ds[1].date,
           body |-> b] : b \in Bodies }

\* contexts for the two days from 2024-05-05, with and without the keys
\* date, state and start_timestamp, with and without an index
NormContexts ==
    { [start_date |-> FirstDay, end_date |-> isoformat(strptime(FirstDay) + 1),
       date |-> x, state |-> x, start_timestamp |-> x, index |-> ix] :
        x \in {None, OldDay}, ix \in {None, Prod, MyIndex} }

InitNorm ==
    /\ stream \in {"count", "searches"}
    /\ state_value = None /\ nested_value = None /\ lookup_raises = FALSE
    /\ context \in NormContexts
    /\ indices \in { <<>>, << Prod >>, << MyIndex, Prod >> }
    /\ context.index # None => indices \in { <<>>, << Prod >> }
    /\ Fresh
    /\ FirstRun

NextNorm ==
    \/ discover_streams
    \/ SearchesGetRecords
    \/ SearchesNextDay
    \/ BaseGetRecords
    \/ BaseNextDay
    \/ Attempt
    \/ \E resp \in NormResponses : ReceivePage(resp)
    \/ ConnectionReset
    \/ OtherException

SpecNorm == InitNorm /\ [][NextNorm]_vars

NextFair ==
    \/ discover_streams
    \/ SearchesGetRecords
    \/ SearchesNextDay
    \/ BaseGetRecords
    \/ BaseNextDay
    \/ Attempt
    \/ \E resp \in Responses(current_date) : ReceivePage(resp)
    \/ ConnectionReset
    \/ OtherException

\* the runs over two days in which the transport keeps answering: every call
\* of it returns a page or raises, and get_records goes on whenever it can
SpecFair == InitNorm /\ [][NextFair]_vars /\ WF_vars(NextFair)

(***************************************************************************)
(* Runs of a stream overriding get_records in which the resume value can   *)
(* come from each of the three places it is looked for.                    *)
(***************************************************************************)
InitLookup ==
    /\ stream = "searches"
    /\ context \in [start_date : {None}, end_date : {None}, date : {None},
                     state : {None}, index : {None},
                     start_timestamp : {None, isoformat(today - 1)} \cup BadDates]
    /\ state_value \in {None, isoformat(today - 2)}
    /\ nested_value \in {None, isoformat(today - 3)}
    /\ lookup_raises = FALSE
    /\ indices = << Prod >>
    /\ Fresh
    /\ FirstRun

SpecLookup == InitLookup /\ [][Next]_vars

(***************************************************************************)
(* Claims.                                                                 *)
(***************************************************************************)
\* the day just fetched: a page ended the current day's retry loop
DayFetched == pc = "base_loop" /\ response.count >= 0

IsDayOf(dc, d) ==
    dc.date = isoformat(d) /\ dc.start_date = dc.date /\ dc.end_date = dc.date

\* C1: with a bookmark that the state lookup returned and that parses, and no
\* start_date in the context, the window starts the day after the bookmark,
\* the first day fetched is that day, and with no end_date in the context the
\* window ends today
C1_Resume ==
    (/\ window.set
     /\ ~ lookup_raises
     /\ strptime_ok(state_value)
     /\ context.start_timestamp = None
     /\ context.start_date = None)
    => /\ window.start = strptime(state_value) + 1
       /\ context.end_date = None => window.end = today
       /\ Len(days) > 0 => days[1].date = isoformat(strptime(state_value) + 1)

C1_Witness ==
    /\ window.set /\ strptime_ok(state_value)
    /\ context.start_date = None /\ context.end_date = None
    /\ state_value = <<2024, 2, 28>>
    /\ Len(days) > 0 /\ days[1].date = <<2024, 2, 29>>

\* C2: a start_date (end_date) of the context that parses is the start (end)
\* of the window, whatever the bookmark is, and the first day fetched is the
\* start_date of the context
C2_OverridePrecedence ==
    window.set
    => /\ strptime_ok(context.start_date)
            => /\ window.start = strptime(context.start_date)
               /\ Len(days) > 0 => days[1].date = context.start_date
       /\ strptime_ok(context.end_date)
            => /\ window.end = strptime(context.end_date)
               /\ pc = "done" /\ Len(days) > 0
                    => days[Len(days)].date = context.end_date

C2_Witness ==
    /\ pc = "done" /\ Len(days) > 1
    /\ strptime_ok(context.start_date) /\ strptime_ok(context.end_date)
    /\ strptime_ok(state_value)
    /\ strptime(state_value) + 1 # strptime(context.start_date)
    /\ strptime(context.end_date) # today

\* C3: with no bookmark and no start_date or end_date in the context the
\* window is [today - default_date_window, today], 31 days from 2024-01-31 on
C3_ColdStart ==
    (/\ window.set
     /\ state_value = None /\ nested_value = None
     /\ context.start_timestamp = None
     /\ context.start_date = None /\ context.end_date = None)
    => /\ window.start = today - default_date_window
       /\ window.end = today
       /\ Len(days) > 0 => days[1].date = <<2024, 1, 31>>
       /\ pc = "done" => Len(days) = default_date_window + 1

C3_Witness ==
    /\ pc = "done" /\ state_value = None
    /\ context.start_date = None /\ context.end_date = None
    /\ Len(days) = 31 /\ days[31].date = <<2024, 3, 1>>

\* C4: when the resolved start is after the resolved end, the run is over
\* with no day context built, no request issued, no sleep, no record
\* emitted, no error, and the bookmark as it was
C4_EmptyWindow ==
    (window.set /\ window.start > window.end)
    => /\ pc = "done" /\ error = ""
       /\ days = <<>> /\ requests = <<>> /\ sleeps = <<>> /\ emitted = <<>>
       /\ run_max = None /\ bookmark = state_value

C4_Witness ==
    /\ window.set /\ window.start > window.end /\ pc = "done"

\* C5: the day contexts of a window with start <= end are those of start,
\* start + 1, ... in this order, each with start_date = end_date = date, and
\* a run that comes to its end has built (end - start).days + 1 of them
C5_DayDecomposition ==
    (window.set /\ window.start <= window.end)
    => /\ \A k \in 1..Len(days) : IsDayOf(days[k], window.start + (k - 1))
       /\ Len(days) <= (window.end - window.start) + 1
       /\ pc = "done" => Len(days) = (window.end - window.start) + 1

C5_Witness ==
    /\ pc = "done" /\ window.set
    /\ window.end - window.start = 2 /\ Len(days) = 3

\* the requests of the current day are all for the current day
RequestsForCurrentDay ==
    \A k \in 1..Len(requests) :
        /\ requests[k].startDate = isoformat(current_date)
        /\ requests[k].endDate = isoformat(current_date)

\* the delays slept so far for the current day are 1, 2, 4, ... seconds
BackoffSchedule == \A j \in 1..Len(sleeps) : sleeps[j] = 2 ^ (j - 1)

\* C6: a day's pagination ends only after a page shorter than `limit`, and
\* every further request of a day has the offset of the one before it plus
\* the number of records that one returned
C6_PaginationContinues ==
    /\ (pc \in {"base_loop", "outer_loop", "done"} /\ response.count >= 0)
         => response.count < limit
    /\ (pc = "wait" /\ response.count >= 0)
         => requests[Len(requests)].offset = response.offset + response.count

\* C7: a day whose first page is shorter than `limit` and whose fetch was
\* never retried has had exactly one request, and no other one is in flight
C7_ShortPageEndsDay ==
    (/\ response.count >= 0 /\ response.count < limit
     /\ response.offset = 0 /\ retry_count = 0)
    => /\ Len(requests) = 1
       /\ requests[1].offset = 0
       /\ pc \notin {"wait", "attempt"}

C7_Witness ==
    /\ DayFetched /\ retry_count = 0
    /\ response.count = ShortPage /\ Len(requests) = 1
    /\ Len(emitted) = 1 /\ emitted[1].count = ShortPage

\* C8: a day fetched after k connection resets (k < 5) was retried exactly k
\* times, after delays of 1, 2, 4, ... seconds, with one request per attempt;
\* the records of the attempt that succeeded are the ones emitted, no error
\* is raised and the day loop is at the next day
C8_RetryThenSuccess ==
    DayFetched
    => /\ retry_count < max_retries
       /\ Len(sleeps) = retry_count /\ BackoffSchedule
       /\ Len(requests) = retry_count + 1 /\ RequestsForCurrentDay
       /\ Len(emitted) = (IF response.count > 0 THEN 1 ELSE 0)
       /\ \A k \in 1..Len(emitted) : emitted[k].count = response.count
       /\ error = ""
       /\ start_date + i = current_date + 1

C8_Witness ==
    /\ DayFetched /\ retry_count = 3
    /\ sleeps = <<1, 2, 4>> /\ Len(requests) = 4
    /\ response.count = ShortPage /\ Len(emitted) = 1

\* C9 as the specification states it: when a day's fetch is given up on, it
\* has been retried 5 times, after delays of 1, 2, 4, 8 and 16 seconds
C9_FiveRetries ==
    error = "ConnectionResetError" => sleeps = <<1, 2, 4, 8, 16>>

\* C9, amended: a day's fetch is attempted at most 5 times, that is retried
\* at most 4 times, the delay before retry number n being 2^(n-1) seconds;
\* when it is given up on, the delays slept are 1, 2, 4 and 8 seconds, and
\* no delay of 16 seconds is ever slept
C9_FiveAttempts ==
    /\ Len(sleeps) <= max_retries - 1
    /\ Len(requests) <= max_retries
    /\ BackoffSchedule
    /\ pc \in {"attempt", "wait"} => Len(sleeps) = retry_count
    /\ error = "ConnectionResetError"
         => /\ sleeps = <<1, 2, 4, 8>>
            /\ Len(requests) = max_retries

C9_Witness ==
    /\ error = "ConnectionResetError"
    /\ sleeps = <<1, 2, 4, 8>> /\ Len(requests) = 5

\* no step of the run is possible any more
Stopped == ~ ENABLED Next

\* C10: once 5 attempts of a day have failed with a connection reset, the
\* failure has left get_records and the run has stopped; the day loop still
\* is at the failing day, the last day context built is that day's, and the
\* 5 requests of the day are the last ones issued
C10_ExhaustionIsFatal ==
    retry_count >= max_retries
    => /\ pc = "failed" /\ error = "ConnectionResetError"
       /\ Stopped
       /\ start_date + i = current_date
       /\ days[Len(days)].date = isoformat(current_date)
       /\ Len(requests) = max_retries /\ RequestsForCurrentDay
       /\ emitted = <<>>

C10_Witness ==
    /\ pc = "failed" /\ retry_count = max_retries
    /\ window.set /\ current_date < window.end

\* C11: once the transport has raised an exception that is no connection
\* reset, the exception has left get_records and the run has stopped, at the
\* day in flight; it was not retried and no delay was slept for it: the
\* requests and delays of the day are those of the connection resets before
\* it, none at all when it is the day's first failure
C11_NonTransientIsFatal ==
    raised = "Exception"
    => /\ pc = "failed" /\ error = "Exception"
       /\ Stopped
       /\ Len(requests) = retry_count + 1
       /\ Len(sleeps) = retry_count
       /\ retry_count < max_retries
       /\ retry_count = 0 => sleeps = <<>> /\ Len(requests) = 1
       /\ start_date + i = current_date /\ RequestsForCurrentDay
       /\ emitted = <<>>

C11_Witness ==
    /\ raised = "Exception" /\ pc = "failed"
    /\ retry_count = 0 /\ sleeps = <<>> /\ Len(requests) = 1
    /\ window.set /\ current_date < window.end

\* a step of a run that keeps the days apart: a day is begun only once the
\* page of the day before it has arrived and its records have been emitted,
\* and is the day after that one; a request is sent, and a record is emitted,
\* only for the last day begun
DaySequencingStep ==
    /\ days' # days =>
          /\ days' = Append(days, days'[Len(days')])
          /\ days # <<>> =>
                /\ response.count >= 0
                /\ response.count > 0 =>
                      /\ Len(emitted) = 1
                      /\ emitted[1].count = response.count
                      /\ emitted[1].start_date = days[Len(days)].date
                /\ days'[Len(days')].date =
                      isoformat(strptime(days[Len(days)].date) + 1)
    /\ (requests' # requests /\ requests' # <<>>) =>
          /\ days' = days /\ days # <<>>
          /\ Len(requests') = Len(requests) + 1
          /\ requests'[Len(requests')].startDate = days[Len(days)].date
          /\ requests'[Len(requests')].endDate = days[Len(days)].date
    /\ (emitted' # emitted /\ emitted' # <<>>) =>
          /\ days' = days /\ days # <<>>
          /\ emitted' = Append(emitted, emitted'[Len(emitted')])
          /\ emitted'[Len(emitted')].start_date = days[Len(days)].date
          /\ emitted'[Len(emitted')].end_date = days[Len(days)].date

\* C12: the days of the window are fetched strictly one after the other: no
\* request for a day is sent before every record of the day before it has
\* been emitted
C12_StrictDaySequencing == [][DaySequencingStep]_vars

C12_Witness ==
    /\ Len(days) >= 2 /\ pc = "wait"
    /\ requests # <<>>
    /\ requests[Len(requests)].startDate = days[Len(days)].date
    /\ days[Len(days)].date = isoformat(strptime(days[Len(days) - 1].date) + 1)

\* a step that emits a record leaves as bookmark the greater of that record's
\* date and the dates emitted before it in the run; any other step leaves
\* the bookmark alone
BookmarkStep ==
    IF emitted' # emitted /\ emitted' # <<>>
    THEN LET d == emitted'[Len(emitted')].date IN
             bookmark' = IF run_max = None \/ str_less(run_max, d)
                         THEN d ELSE run_max
    ELSE bookmark' = bookmark

\* C13: the bookmark is the greatest date among the records the run has
\* emitted, and the value it had before the run while the run has emitted none
C13_BookmarkAdvancement ==
    /\ [](run_max = None => bookmark = state_value)
    /\ [](\A k \in 1..Len(emitted) : ~ str_less(bookmark, emitted[k].date))
    /\ [][BookmarkStep]_vars

C13_Witness ==
    /\ emitted # <<>> /\ pc = "done"
    /\ str_less(emitted[Len(emitted)].date, bookmark)
    /\ bookmark # state_value /\ str_less(state_value, bookmark)

ResumedRun ==
    /\ ~ lookup_raises
    /\ strptime_ok(state_value)
    /\ context.start_date = None /\ context.start_timestamp = None

\* the step emits a record whose date is not the date of its day, which only
\* the base get_records does
EmitsForeignDate ==
    /\ stream = "count"
    /\ emitted' # emitted /\ emitted' # <<>>
    /\ emitted'[Len(emitted')].date # days[Len(days)].date

DayInFlight == strptime(days[Len(days)].date)

C16_ResumeDoesNotRefetch ==
    ResumedRun
    => /\ \A k \in 1..Len(days) :
             strptime(days[k].date) > strptime(state_value)
       /\ \A k \in 1..Len(requests) :
             /\ strptime_ok(requests[k].startDate)
             /\ strptime(requests[k].startDate) > strptime(state_value)
             /\ strptime(requests[k].endDate) > strptime(state_value)

C16_Witness ==
    /\ ResumedRun /\ context.end_date = None
    /\ Len(days) >= 2 /\ pc = "wait" /\ Len(requests) >= 2
    /\ requests[1].startDate = isoformat(strptime(state_value) + 2)

\* a date of the context that is present and is no valid YYYY-MM-DD string
Malformed(v) == v # None /\ ~ strptime_ok(v)

\* the start of the window when the context gives none
StartWithoutOverride ==
    IF ~ lookup_raises /\ strptime_ok(state_value)
    THEN strptime(state_value) + 1
    ELSE today - default_date_window

C19_AuthoritativeDate ==
    \A k \in 1..Len(emitted) : emitted[k].date = isoformat(current_date)

\* C20, as claimed: the date of every record emitted is a string of the form
\* YYYY-MM-DD, whatever the date of its raw entry was
C20_DateForm ==
    \A k \in 1..Len(emitted) : is_iso_date(emitted[k].date)

\* the objects among the entries of a body
ObjectsOf(b) == SelectSeq(b.entries, LAMBDA e : e.dict)

\* C21, as claimed: every record of a page has an index_name: the one its raw
\* entry had, else the name of the index resolved for the request
C21_IndexName ==
    \A k \in 1..Len(out) :
        k <= Len(ObjectsOf(body)) =>
            out[k].index_name = IF ObjectsOf(body)[k].index_name # None
                                THEN ObjectsOf(body)[k].index_name
                                ELSE resolve_index(day_context)

\* the body of the current day is that of the example: one entry
\* {"search": "shoes", "count": 10}, for index "prod" on 2024-05-05
ShoesBody ==
    /\ body.itemised /\ body.entries = << ShoesEntry >>
    /\ resolve_index(day_context) = Prod
    /\ current_date = strptime(FirstDay)

C23_NonDictSkipped ==
    body.itemised =>
       /\ Len(out) = Len(ObjectsOf(body))
       /\ \A k \in 1..Len(out) :
             /\ out[k].search = ObjectsOf(body)[k].search
             /\ out[k].count = ObjectsOf(body)[k].count
       /\ error = "" /\ raised = ""

C23_Witness ==
    /\ body.itemised /\ Len(body.entries) = 2
    /\ body.entries[1] = NotDict /\ body.entries[2].search = Hats
    /\ Len(out) = 1 /\ out[1].search = Hats

\* a body without the record array
MissingArray(b) == b.itemised /\ ~ b.has_array

\* C24: a body without the record array yields no record and no error, and
\* the step that receives it goes on to the next day
C24_MissingArray ==
    /\ [](MissingArray(body) =>
             out = <<>> /\ emitted = <<>> /\ error = "" /\ raised = "")
    /\ [][MissingArray(body') /\ pc = "wait" =>
             pc' = "base_loop" /\ i' = i + 1 /\ error' = ""]_vars

C24_Witness ==
    /\ MissingArray(body) /\ pc = "done" /\ error = ""
    /\ Len(days) = 2 /\ days[2].date = isoformat(current_date)

\* C25: with no index in the configuration and none in the context the run
\* ends with an error before any extraction begins: no window is computed,
\* no day is started, no request is sent and no record is emitted
C25_ConfigurationError ==
    (indices = <<>> /\ context.index = None) =>
       /\ requests = <<>> /\ emitted = <<>> /\ out = <<>>
       /\ days = <<>> /\ ~ window.set
       /\ pc # "start" => pc = "failed" /\ error = "ValueError"

C25_Witness ==
    /\ indices = <<>> /\ context.index = None
    /\ pc = "failed" /\ error = "ValueError" /\ requests = <<>>

PassesThrough(dc, d) ==
    /\ dc.start_timestamp = context.start_timestamp
    /\ dc.index = context.index
    /\ dc.state = None
    /\ IsDayOf(dc, d)

\* C27: every day context, that of the overriding get_records and that of
\* the base one, has the other keys of the caller's context unchanged and
\* not its start_date, end_date, date or state; the caller's context is
\* never modified
C27_ContextPassThrough ==
    /\ [](/\ \A k \in 1..Len(days) : PassesThrough(days[k], window.start + k - 1)
          /\ day_context # NoDayContext => PassesThrough(day_context, current_date))
    /\ [][context' = context]_vars

C27_Witness ==
    /\ context.date = OldDay /\ context.state = OldDay
    /\ context.start_timestamp = OldDay /\ context.index = MyIndex
    /\ stream = "searches" /\ Len(days) = 2
    /\ day_context.start_timestamp = OldDay /\ day_context.index = MyIndex
    /\ day_context.date = days[2].date

\* C28: when the transport answers every call and get_records goes on
\* whenever it can, every run comes to an end: all its days are processed or
\* a failure has left get_records
C28_RunTerminates == <>(pc \in {"done", "failed"})

C28_Witness ==
    /\ pc = "done" /\ Len(days) >= 2
    /\ retry_count >= 1 /\ response.count >= 0

\* C29: a rate written 0.1 in the body is carried in the record as the
\* decimal 1 * 10^-1, whose string form is "0.1"; in general the string form
\* of a record's rate is the literal of its raw entry
C29_NumericFidelity ==
    \A k \in 1..Len(out) :
        k <= Len(ObjectsOf(body)) =>
            IF ObjectsOf(body)[k].rate = None
            THEN out[k].rate = NoRate
            ELSE /\ decimal_str(out[k].rate) = ObjectsOf(body)[k].rate
                 /\ ObjectsOf(body)[k].rate = PointOne =>
                        out[k].rate = [coef |-> 1, exp |-> -1]

C29_Witness ==
    /\ Len(out) = 2 /\ ObjectsOf(body)[2].rate = PointOne
    /\ out[2].rate = [coef |-> 1, exp |-> -1]
    /\ decimal_str(out[2].rate) = << "0", ".", "1" >>

OuterDay == o_start + o_i

\* C33: in the streams overriding get_records the base get_records is called
\* with start_date = end_date = the outer day, resolves the window of that
\* one day whatever the bookmark is, and sends the day's requests for that
\* day only, under its own retry policy; an outer day that the base
\* get_records has returned from has had its request
C33_NestedDelegation ==
    stream = "searches" =>
       /\ pc \in {"base_start", "base_loop", "attempt", "wait"} =>
             /\ ctx.start_date = isoformat(OuterDay)
             /\ ctx.end_date = isoformat(OuterDay)
       /\ pc \in {"base_loop", "attempt", "wait"} =>
             /\ start_date = OuterDay /\ end_date = OuterDay
             /\ i \in {0, 1}
       /\ pc \in {"attempt", "wait"} =>
             /\ current_date = OuterDay /\ i = 0
             /\ RequestsForCurrentDay /\ BackoffSchedule
             /\ Len(requests) <= max_retries
             /\ Len(sleeps) = retry_count
       /\ (pc = "outer_loop" /\ o_i >= 1) =>
             /\ requests # <<>> /\ response.count >= 0
             /\ \A k \in 1..Len(requests) :
                   requests[k].startDate = isoformat(OuterDay - 1)

C33_Witness ==
    /\ stream = "searches" /\ pc = "outer_loop" /\ o_i >= 2
    /\ state_value # None /\ strptime_ok(state_value)
    /\ strptime(state_value) >= OuterDay - 1
    /\ Len(requests) >= 2 /\ response.count >= 0

C35_OffsetAndLimit ==
    /\ [](\A k \in 1..Len(requests) :
             /\ requests[k].offset >= 0
             /\ requests[k].limit = requests[1].limit
             /\ requests[k].limit = IF stream = "searches"
                                    THEN TopSearchesStream_limit ELSE 1000
             /\ k = 1 => requests[k].offset = 0)
    /\ [][(pc = "attempt" /\ requests' # requests) =>
             requests'[Len(requests')].offset = 0]_vars

C35_Witness ==
    /\ Len(days) >= 2 /\ retry_count >= 2 /\ Len(requests) = retry_count + 1
    /\ requests[Len(requests)].offset = 0
    /\ requests[Len(requests)].limit = 1000

\* a step of a stream overriding get_records that emits a record emits one
\* whose date is a day of the resolved window and not before any date
\* emitted earlier in the run
EmissionOrderStep ==
    (stream = "searches" /\ emitted' # emitted /\ emitted' # <<>>) =>
        LET d == emitted'[Len(emitted')].date IN
            /\ is_iso_date(d)
            /\ window.set
            /\ window.start <= strptime(d) /\ strptime(d) <= window.end
            /\ run_max # None => ~ str_less(d, run_max)
            /\ \A k \in 1..Len(emitted) : ~ str_less(d, emitted[k].date)

\* C36: in a run of a stream overriding get_records the dates of the records
\* are non-decreasing in the order of emission and are days of the resolved
\* window
C36_EmissionOrder == [][EmissionOrderStep]_vars

C36_Witness ==
    /\ stream = "searches" /\ Len(days) >= 3 /\ pc = "outer_loop"
    /\ Len(emitted) = 1 /\ emitted[1].date = days[Len(days)].date
    /\ run_max = emitted[1].date

\* C38: in a stream overriding get_records, with no start_date in the
\* context, the window starts the day after the context's start_timestamp
\* when it has one, else the day after the value of the stream state, else
\* the day after the replication_key_value under bookmarks; the first of the
\* three that is there decides alone: when it does not parse the window is
\* the default one, whatever the later ones are
C38_LookupPrecedence ==
    (stream = "searches" /\ ~ lookup_raises /\ context.start_date = None
       /\ window.set) =>
        window.start =
           IF context.start_timestamp # None
           THEN IF strptime_ok(context.start_timestamp)
                THEN strptime(context.start_timestamp) + 1
                ELSE today - default_date_window
           ELSE IF state_value # None
           THEN IF strptime_ok(state_value)
                THEN strptime(state_value) + 1
                ELSE today - default_date_window
           ELSE IF nested_value # None /\ strptime_ok(nested_value)
           THEN strptime(nested_value) + 1
           ELSE today - default_date_window

\* the three sources are all there and differ, and the day after the
\* start_timestamp is the only day fetched
C38_Witness ==
    /\ context.start_timestamp = isoformat(today - 1)
    /\ state_value = isoformat(today - 2)
    /\ nested_value = isoformat(today - 3)
    /\ pc = "done" /\ Len(days) = 1 /\ days[1].date = isoformat(today)

(***************************************************************************)
(* Consecutive runs of a stream.  A run starts from the bookmark the run   *)
(* before it left in the state store; a run ends when get_records returns, *)
(* when it raises, or when the run is cut off while get_records is         *)
(* suspended at a yield.                                                   *)
(***************************************************************************)
MaxRuns == 3

\* client.py:396-404: get_records yields the records of a page one at a
\* time; the run is cut off (the consumer raises, or the process is stopped)
\* after the first record of a page of several, so that get_records is never
\* resumed.  The record already emitted has advanced the bookmark (spec 4.5)
Interrupted(resp) ==
    /\ pc = "wait"
    /\ resp.count > 1
    /\ LET params == requests[Len(requests)]
           rec    == [emitted_record(resp, params) EXCEPT !.count = 1]
       IN /\ response' = [count |-> resp.count, offset |-> params.offset]
          /\ emitted' = Append(emitted, rec)
          /\ run_max' = advance_bookmark(run_max, rec)
          /\ bookmark' = IF run_max' = None THEN bookmark ELSE run_max'
    /\ pc' = "aborted"
    /\ UNCHANGED <<inputs, resets_before, window, outer_frame, ctx, base_frame,
                   requests, sleeps, raised, body, out, days, error>>

\* how a run that has ended is remembered by the run after it
run_summary ==
    [ended |-> pc, day |-> current_date, partial |-> pc = "aborted",
     days |-> Len(days)]

\* the next invocation of the stream: same configuration, the stored
\* bookmark as its starting replication-key value
NextRun ==
    /\ pc \in {"done", "failed", "aborted"}
    /\ run < MaxRuns
    /\ run' = run + 1
    /\ last_run' = run_summary
    /\ state_value' = bookmark
    /\ UNCHANGED <<stream, nested_value, lookup_raises, context, indices>>
    /\ pc' = "start"
    /\ window' = [set |-> FALSE, start |-> 0, end |-> 0]
    /\ o_start' = 0 /\ o_end' = 0 /\ o_i' = 0
    /\ ctx' = context
    /\ start_date' = 0 /\ end_date' = 0 /\ i' = 0 /\ current_date' = 0
    /\ day_context' = NoDayContext
    /\ retry_count' = 0
    /\ requests' = <<>> /\ sleeps' = <<>> /\ emitted' = <<>>
    /\ response' = NoResponse
    /\ raised' = ""
    /\ body' = NoBody /\ out' = <<>>
    /\ days' = <<>>
    /\ run_max' = None
    /\ bookmark' = bookmark
    /\ error' = ""
    /\ resets_before' = FALSE

\* runs without override, from a bookmark of the last few days
InitRuns ==
    /\ stream \in {"count", "searches"}
    /\ state_value \in { isoformat(today - k) : k \in 0..MaxLag }
    /\ nested_value = None
    /\ lookup_raises = FALSE
    /\ context = [start_date |-> None, end_date |-> None, date |-> None,
                  state |-> None, start_timestamp |-> None, index |-> None]
    /\ indices = << Prod >>
    /\ Fresh
    /\ FirstRun

NextRuns ==
    \/ SearchesGetRecords
    \/ SearchesNextDay
    \/ BaseGetRecords
    \/ BaseNextDay
    \/ Attempt
    \/ \E resp \in Responses(current_date) : ReceivePage(resp)
    \/ \E resp \in Responses(current_date) : Interrupted(resp)
    \/ ConnectionReset
    \/ OtherException
    \/ NextRun

SpecRuns == InitRuns /\ [][NextRuns]_vars

\* C31: when the run before this one was cut off while fetching day D, after
\* it had emitted a record of day D, and this run (without override) has
\* returned, this run has requested day D
C31_FailedDayRefetched ==
    (run >= 2 /\ last_run.partial /\ pc = "done") =>
        \E k \in 1..Len(days) : days[k].date = isoformat(last_run.day)

\* C37: a run without override whose bookmark is today resolves the window
\* tomorrow..today, requests no day, emits no record, raises nothing and
\* leaves the bookmark where it was, so that the run after it starts from the
\* same bookmark again
C37_SameDayRerunNoOp ==
    /\ [](state_value = isoformat(today) =>
            /\ window.set => window.start = today + 1 /\ window.end = today
            /\ days = <<>> /\ requests = <<>> /\ emitted = <<>>
            /\ run_max = None
            /\ bookmark = state_value
            /\ pc \notin {"failed", "aborted"} /\ error = "")
    /\ [][state_value = isoformat(today) =>
            state_value' = state_value /\ bookmark' = bookmark]_vars

\* a run from a bookmark of today has returned, after two earlier runs the
\* last of which requested no day
C37_Witness ==
    /\ state_value = isoformat(today)
    /\ run = MaxRuns /\ last_run.ended = "done" /\ last_run.days = 0
    /\ pc = "done" /\ window.set

\* C32: every day starts with a retry counter of 0 and empty logs of
\* requests and sleeps; whatever connection resets the days before it had, a
\* day has made as many requests as it had connection resets when it makes
\* the next one, it ends with ConnectionResetError only after max_retries
\* requests of its own, its first sleep is retry_delay (1 second) and its
\* sleeps double from there
C32_PerDayRetryBudget ==
    /\ [](/\ Len(requests) <= max_retries
          /\ pc = "attempt" => Len(requests) = retry_count
          /\ pc = "wait" => Len(requests) = retry_count + 1
          /\ (pc = "failed" /\ error = "ConnectionResetError") =>
                Len(requests) = max_retries /\ Len(sleeps) = max_retries - 1
          /\ sleeps # <<>> => sleeps[1] = retry_delay
          /\ BackoffSchedule)
    /\ [][(pc = "base_loop" /\ pc' = "attempt") =>
             retry_count' = 0 /\ requests' = <<>> /\ sleeps' = <<>>]_vars

\* a day that follows a day with connection resets has used all max_retries
\* attempts of its own, the first of its sleeps being 1 second
C32_Witness ==
    /\ resets_before
    /\ pc = "failed" /\ error = "ConnectionResetError"
    /\ Len(requests) = max_retries
    /\ Len(sleeps) = max_retries - 1 /\ sleeps[1] = 1

====
